---- MODULE Spec2Model ----
(***************************************************************************)
(* Model of qutebrowser/api/hook.py: the hook decorators that extension    *)
(* modules apply to their callbacks, and the per-module hook registry      *)
(* (qutebrowser.extensions.loader) the decorators write into.              *)
(*                                                                         *)
(* Strings whose characters matter (option names, filters) are sequences   *)
(* of one-character strings.  Callbacks and module names are atoms.        *)
(***************************************************************************)
EXTENDS Integers, Sequences, FiniteSets, TLC

VARIABLES registry, calls, ret, decorators, threads

vars == <<registry, calls, ret, decorators, threads>>

\* ---------------------------------------------------------------- bounds
\* Longest trace of API calls explored.
MaxCalls == 3

\* Longest generated option name / filter in the matching specification.
MaxStrLen == 3

\* ------------------------------------------------------------ values
\* Python's None where a callback or a module is expected.
None == "None"

\* Python's None as option_filter (config_changed.__init__ default); a
\* one-element tuple holding a token that is no character, so that it
\* differs from every string.
NoFilter == <<"None">>

\* No exception was raised.
NoError == ""

\* raise ValueError("init hook is already registered!")
ValueError == "ValueError"

\* importlib.import_module on a module that cannot be found.
ModuleNotFoundError == "ModuleNotFoundError"

\* Modules that importlib can import.
Modules == {"modA", "modB"}

\* Callbacks handed to the decorators.
Funcs == {"modA.f1", "modA.f2", "modB.g1", "nomod.h"}

\* func.__module__
ModuleOf(func) ==
  CASE func = "modA.f1" -> "modA"
    [] func = "modA.f2" -> "modA"
    [] func = "modB.g1" -> "modB"
    [] OTHER -> "nomod"

\* "bind"
S_bind ==
  <<"b","i","n","d">>
\* "bindings"
S_bindings ==
  <<"b","i","n","d","i","n","g","s">>
\* "bindings.commands"
S_bindings_commands ==
  <<"b","i","n","d","i","n","g","s",".","c","o","m","m","a","n","d","s">>
\* "bindings.key_mappings"
S_bindings_key_mappings ==
  <<"b","i","n","d","i","n","g","s",".","k","e","y","_","m","a","p","p","i","n","g","s">>
\* "bindingsextra.foo"
S_bindingsextra_foo ==
  <<"b","i","n","d","i","n","g","s","e","x","t","r","a",".","f","o","o">>
\* "other.bindings"
S_other_bindings ==
  <<"o","t","h","e","r",".","b","i","n","d","i","n","g","s">>
\* "content.javascript"
S_content_javascript ==
  <<"c","o","n","t","e","n","t",".","j","a","v","a","s","c","r","i","p","t">>
\* "content.javascript.enabled"
S_content_javascript_enabled ==
  <<"c","o","n","t","e","n","t",".","j","a","v","a","s","c","r","i","p","t",".","e","n","a","b","l","e","d">>
\* "content.javascript.enabled.extra"
S_content_javascript_enabled_extra ==
  <<"c","o","n","t","e","n","t",".","j","a","v","a","s","c","r","i","p","t",".","e","n","a","b","l","e","d",".","e","x","t","r","a">>
\* "content.javascript.enabledx"
S_content_javascript_enabledx ==
  <<"c","o","n","t","e","n","t",".","j","a","v","a","s","c","r","i","p","t",".","e","n","a","b","l","e","d","x">>
\* "colors.foo"
S_colors_foo ==
  <<"c","o","l","o","r","s",".","f","o","o">>

\* Filters the extension modules pass to config_changed(...).
Filters == {NoFilter, S_content_javascript}

\* Option names the host reports as changed.
Options == {S_content_javascript_enabled, S_colors_foo}

\* ------------------------------------------------------- the registry
\* loader.ModuleInfo(): a fresh hook set, no hook of any category.
ModuleInfo ==
  [init_hook |-> None,
   config_changed_hooks |-> <<>>,
   before_load_hooks |-> <<>>,
   load_started_hooks |-> <<>>,
   load_finished_hooks |-> <<>>]

RECURSIVE IndexFrom(_, _, _)
\* Position of the first entry for identity at or after position i, 0 if none.
IndexFrom(reg, identity, i) ==
  IF i > Len(reg) THEN 0
  ELSE IF reg[i].identity = identity THEN i
  ELSE IndexFrom(reg, identity, i + 1)

\* get(identity): a reference to the module's hook set (its position in the
\* registry), 0 when the identity was never registered.  Creates nothing.
get(reg, identity) ==
  IndexFrom(reg, identity, 1)

\* add_module_info that stores a new module in front of the others.
add_module_info_front(reg, module) ==
  LET i == get(reg, module) IN
  IF i # 0
  THEN [registry |-> reg, info |-> i]
  ELSE [registry |-> <<[identity |-> module, info |-> ModuleInfo]>> \o reg,
        info |-> 1]

\* getOrCreate(identity) / loader.add_module_info(module): the existing hook
\* set of the module, or a new empty one stored at the end of the registry.
add_module_info(reg, module) ==
  LET i == get(reg, module) IN
  IF i # 0
  THEN [registry |-> reg, info |-> i]
  ELSE [registry |-> Append(reg, [identity |-> module, info |-> ModuleInfo]),
        info |-> Len(reg) + 1]

\* A lookup that creates the entry it does not find.
get_call_creating(reg, identity) ==
  LET r == add_module_info(reg, identity) IN
  [registry |-> r.registry, result |-> r.info]

\* A call of get(identity): the registry it leaves and the reference it
\* returns.
get_call(reg, identity) ==
  [registry |-> reg, result |-> get(reg, identity)]

\* all(): every registered module with the reference to its hook set, in
\* registry order.
all(reg) ==
  [i \in 1..Len(reg) |-> <<reg[i].identity, i>>]

\* ------------------------------------------------- config-change filter
\* str.startswith
StartsWith(s, prefix) ==
  /\ Len(prefix) <= Len(s)
  /\ SubSeq(s, 1, Len(prefix)) = prefix

\* The predicate with a raw prefix test that ignores the '.' boundary.
FilterMatches_rawprefix(option_filter, option) ==
  \/ option_filter = NoFilter
  \/ StartsWith(option, option_filter)

\* The predicate with the prefix test also applied the other way round.
FilterMatches_either(option_filter, option) ==
  \/ option_filter = NoFilter
  \/ option_filter = option
  \/ StartsWith(option, option_filter \o <<".">>)
  \/ StartsWith(option_filter, option \o <<".">>)

\* The filter-matching predicate: no filter, the option itself, or a prefix
\* of the option that ends right before a '.'.
FilterMatches(option_filter, option) ==
  \/ option_filter = NoFilter
  \/ option_filter = option
  \/ StartsWith(option, option_filter \o <<".">>)

RECURSIVE MatchingHooks(_, _)
\* Dispatch for one hook set: walk config_changed_hooks front to back and
\* keep the entries whose filter matches the changed option.
MatchingHooks(hooks, option) ==
  IF hooks = <<>> THEN <<>>
  ELSE LET rest == MatchingHooks(Tail(hooks), option) IN
       IF FilterMatches(Head(hooks)[1], option)
       THEN <<Head(hooks)>> \o rest
       ELSE rest

\* ------------------------------------------------------ the decorators
\* _add_module_info that files every callback under the module of the
\* decorators instead of func.__module__.
_add_module_info_shared(reg, func) ==
  IF ModuleOf(func) \notin Modules
  THEN [registry |-> reg, info |-> 0, error |-> ModuleNotFoundError]
  ELSE LET r == add_module_info(reg, "qutebrowser.api.hook") IN
       [registry |-> r.registry, info |-> r.info, error |-> NoError]

\* _add_module_info that makes a new ModuleInfo on every call.
_add_module_info_fresh(reg, func) ==
  IF ModuleOf(func) \notin Modules
  THEN [registry |-> reg, info |-> 0, error |-> ModuleNotFoundError]
  ELSE [registry |->
          Append(reg, [identity |-> ModuleOf(func), info |-> ModuleInfo]),
        info |-> Len(reg) + 1, error |-> NoError]

\* _add_module_info that skips the import and trusts func.__module__.
_add_module_info_noimport(reg, func) ==
  LET r == add_module_info(reg, ModuleOf(func)) IN
  [registry |-> r.registry, info |-> r.info, error |-> NoError]

\* _add_module_info(func): import func.__module__, then get or create the
\* module's hook set.  A failing import raises before the registry is touched.
_add_module_info(reg, func) ==
  IF ModuleOf(func) \notin Modules
  THEN [registry |-> reg, info |-> 0, error |-> ModuleNotFoundError]
  ELSE LET r == add_module_info(reg, ModuleOf(func)) IN
       [registry |-> r.registry, info |-> r.info, error |-> NoError]

\* init.__call__ without the test for an init hook already stored.
init_call_nocheck(reg, func) ==
  LET a == _add_module_info(reg, func) IN
  IF a.error # NoError
  THEN [registry |-> a.registry, result |-> None, error |-> a.error]
  ELSE [registry |-> [a.registry EXCEPT ![a.info].info.init_hook = func],
        result |-> func, error |-> NoError]

\* init.__call__ that stores the callback before it tests and raises.
init_call_store_first(reg, func) ==
  LET a == _add_module_info(reg, func) IN
  IF a.error # NoError
  THEN [registry |-> a.registry, result |-> None, error |-> a.error]
  ELSE IF a.registry[a.info].info.init_hook # None
  THEN [registry |-> [a.registry EXCEPT ![a.info].info.init_hook = func],
        result |-> None, error |-> ValueError]
  ELSE [registry |-> [a.registry EXCEPT ![a.info].info.init_hook = func],
        result |-> func, error |-> NoError]

\* init.__call__ with the test for a stored init hook the wrong way round.
init_call_inverted(reg, func) ==
  LET a == _add_module_info(reg, func) IN
  IF a.error # NoError
  THEN [registry |-> a.registry, result |-> None, error |-> a.error]
  ELSE IF a.registry[a.info].info.init_hook = None
  THEN [registry |-> a.registry, result |-> None, error |-> ValueError]
  ELSE [registry |-> [a.registry EXCEPT ![a.info].info.init_hook = func],
        result |-> func, error |-> NoError]

\* init.__call__
init_call(reg, func) ==
  LET a == _add_module_info(reg, func) IN
  IF a.error # NoError
  THEN [registry |-> a.registry, result |-> None, error |-> a.error]
  ELSE IF a.registry[a.info].info.init_hook # None
  THEN [registry |-> a.registry, result |-> None, error |-> ValueError]
  ELSE [registry |-> [a.registry EXCEPT ![a.info].info.init_hook = func],
        result |-> func, error |-> NoError]

\* The test of init.__call__ left out: never raises.
init_check_never(reg, info) ==
  NoError

\* init.__call__, the test alone: the exception it raises for the hook set
\* with reference info, NoError if it goes on.
init_check(reg, info) ==
  IF reg[info].info.init_hook # None THEN ValueError ELSE NoError

\* init.__call__, the assignment alone.
init_store(reg, info, func) ==
  [reg EXCEPT ![info].info.init_hook = func]

\* config_changed.__init__ that drops its argument and keeps the default.
config_changed_init_default(option_filter) ==
  [filter |-> NoFilter]

\* config_changed.__init__
config_changed_init(option_filter) ==
  [filter |-> option_filter]

\* config_changed.__call__ that inserts at the front of the list.
config_changed_call_prepend(self, reg, func) ==
  LET a == _add_module_info(reg, func) IN
  IF a.error # NoError
  THEN [registry |-> a.registry, result |-> None, error |-> a.error]
  ELSE [registry |->
          [a.registry EXCEPT ![a.info].info.config_changed_hooks =
             <<<<self.filter, func>>>> \o @],
        result |-> func, error |-> NoError]

\* config_changed.__call__ that forgets the filter of the decorator.
config_changed_call_nofilter(self, reg, func) ==
  LET a == _add_module_info(reg, func) IN
  IF a.error # NoError
  THEN [registry |-> a.registry, result |-> None, error |-> a.error]
  ELSE [registry |->
          [a.registry EXCEPT ![a.info].info.config_changed_hooks =
             Append(@, <<NoFilter, func>>)],
        result |-> func, error |-> NoError]

\* config_changed.__call__ that assigns a new one-entry list instead of
\* appending.
config_changed_call_replace(self, reg, func) ==
  LET a == _add_module_info(reg, func) IN
  IF a.error # NoError
  THEN [registry |-> a.registry, result |-> None, error |-> a.error]
  ELSE [registry |->
          [a.registry EXCEPT ![a.info].info.config_changed_hooks =
             <<<<self.filter, func>>>>],
        result |-> func, error |-> NoError]

\* config_changed.__call__
config_changed_call(self, reg, func) ==
  LET a == _add_module_info(reg, func) IN
  IF a.error # NoError
  THEN [registry |-> a.registry, result |-> None, error |-> a.error]
  ELSE [registry |->
          [a.registry EXCEPT ![a.info].info.config_changed_hooks =
             Append(@, <<self.filter, func>>)],
        result |-> func, error |-> NoError]

\* before_load.__call__ without its return statement.
before_load_call_noreturn(reg, func) ==
  LET a == _add_module_info(reg, func) IN
  IF a.error # NoError
  THEN [registry |-> a.registry, result |-> None, error |-> a.error]
  ELSE [registry |->
          [a.registry EXCEPT ![a.info].info.before_load_hooks = Append(@, func)],
        result |-> None, error |-> NoError]

\* before_load.__call__
before_load_call(reg, func) ==
  LET a == _add_module_info(reg, func) IN
  IF a.error # NoError
  THEN [registry |-> a.registry, result |-> None, error |-> a.error]
  ELSE [registry |->
          [a.registry EXCEPT ![a.info].info.before_load_hooks = Append(@, func)],
        result |-> func, error |-> NoError]

\* load_started.__call__ that appends to the load-finished list as well.
load_started_call_both(reg, func) ==
  LET a == _add_module_info(reg, func) IN
  IF a.error # NoError
  THEN [registry |-> a.registry, result |-> None, error |-> a.error]
  ELSE [registry |->
          [a.registry EXCEPT
             ![a.info].info.load_started_hooks = Append(@, func),
             ![a.info].info.load_finished_hooks = Append(@, func)],
        result |-> func, error |-> NoError]

\* load_started.__call__
load_started_call(reg, func) ==
  LET a == _add_module_info(reg, func) IN
  IF a.error # NoError
  THEN [registry |-> a.registry, result |-> None, error |-> a.error]
  ELSE [registry |->
          [a.registry EXCEPT ![a.info].info.load_started_hooks = Append(@, func)],
        result |-> func, error |-> NoError]

\* load_finished.__call__ that assigns a new one-entry list instead of
\* appending.
load_finished_call_replace(reg, func) ==
  LET a == _add_module_info(reg, func) IN
  IF a.error # NoError
  THEN [registry |-> a.registry, result |-> None, error |-> a.error]
  ELSE [registry |->
          [a.registry EXCEPT ![a.info].info.load_finished_hooks = <<func>>],
        result |-> func, error |-> NoError]

\* load_finished.__call__
load_finished_call(reg, func) ==
  LET a == _add_module_info(reg, func) IN
  IF a.error # NoError
  THEN [registry |-> a.registry, result |-> None, error |-> a.error]
  ELSE [registry |->
          [a.registry EXCEPT ![a.info].info.load_finished_hooks = Append(@, func)],
        result |-> func, error |-> NoError]

\* ------------------------------------------------------------- actions
\* One API call: what was called and with which arguments.
Call(op, func, option_filter, identity, option) ==
  [op |-> op, func |-> func, filter |-> option_filter,
   identity |-> identity, option |-> option, self |-> 0]

\* A call of a method of the config_changed object with reference self.
CallOn(self, op, func, option_filter) ==
  [Call(op, func, option_filter, None, <<>>) EXCEPT !.self = self]

\* Threads of the host that may load extension modules.
Threads == {"t1", "t2", "t3"}

\* A thread that is not inside a decorator.
IdleThread ==
  [pc |-> "idle", func |-> None, info |-> 0,
   result |-> None, error |-> NoError]

\* The call is made: the registry becomes what the call left, the call joins
\* the trace and its return value or exception is kept.
Return(c, reg, result, error) ==
  /\ registry' = reg
  /\ calls' = Append(calls, c)
  /\ ret' = [call |-> c, result |-> result, error |-> error]
  /\ UNCHANGED <<decorators, threads>>

Init ==
  /\ registry = <<>>
  /\ calls = <<>>
  /\ ret = [call |-> Call("none", None, NoFilter, None, <<>>),
            result |-> None, error |-> NoError]
  /\ decorators = <<>>
  /\ threads = [t \in Threads |-> IdleThread]

\* @hook.init() applied to func
HookInit(func) ==
  /\ Len(calls) < MaxCalls
  /\ LET out == init_call(registry, func) IN
     Return(Call("init", func, NoFilter, None, <<>>),
            out.registry, out.result, out.error)

\* @hook.config_changed(option_filter) applied to func
HookConfigChanged(option_filter, func) ==
  /\ Len(calls) < MaxCalls
  /\ LET out == config_changed_call(config_changed_init(option_filter),
                                    registry, func) IN
     Return(Call("config_changed", func, option_filter, None, <<>>),
            out.registry, out.result, out.error)

\* @hook.before_load() applied to func
HookBeforeLoad(func) ==
  /\ Len(calls) < MaxCalls
  /\ LET out == before_load_call(registry, func) IN
     Return(Call("before_load", func, NoFilter, None, <<>>),
            out.registry, out.result, out.error)

\* @hook.load_started() applied to func
HookLoadStarted(func) ==
  /\ Len(calls) < MaxCalls
  /\ LET out == load_started_call(registry, func) IN
     Return(Call("load_started", func, NoFilter, None, <<>>),
            out.registry, out.result, out.error)

\* @hook.load_finished() applied to func
HookLoadFinished(func) ==
  /\ Len(calls) < MaxCalls
  /\ LET out == load_finished_call(registry, func) IN
     Return(Call("load_finished", func, NoFilter, None, <<>>),
            out.registry, out.result, out.error)

\* The host calls getOrCreate(identity) itself.
GetOrCreate(identity) ==
  /\ Len(calls) < MaxCalls
  /\ LET out == add_module_info(registry, identity) IN
     Return(Call("getOrCreate", None, NoFilter, identity, <<>>),
            out.registry, out.info, NoError)

\* The host calls get(identity).
Get(identity) ==
  /\ Len(calls) < MaxCalls
  /\ LET out == get_call(registry, identity) IN
     Return(Call("get", None, NoFilter, identity, <<>>),
            out.registry, out.result, NoError)

\* The host calls all().
All ==
  /\ Len(calls) < MaxCalls
  /\ Return(Call("all", None, NoFilter, None, <<>>),
            registry, all(registry), NoError)

\* The host asks which config-changed hooks of a registered module fire for
\* a changed option.
Dispatch(identity, option) ==
  /\ Len(calls) < MaxCalls
  /\ get(registry, identity) # 0
  /\ Return(Call("dispatch", None, NoFilter, identity, option),
            registry,
            MatchingHooks(
              registry[get(registry, identity)].info.config_changed_hooks,
              option),
            NoError)

Next ==
  \/ \E func \in Funcs : HookInit(func)
  \/ \E option_filter \in Filters, func \in Funcs :
       HookConfigChanged(option_filter, func)
  \/ \E func \in Funcs : HookBeforeLoad(func)
  \/ \E func \in Funcs : HookLoadStarted(func)
  \/ \E func \in Funcs : HookLoadFinished(func)
  \/ \E identity \in Modules : GetOrCreate(identity)
  \/ \E identity \in Modules : Get(identity)
  \/ All
  \/ \E identity \in Modules, option \in Options : Dispatch(identity, option)

Spec == Init /\ [][Next]_vars

\* ------------------------------- extension modules being loaded, alone
\* Only the five decorators run: the host makes no registry call of its own.
NextHooks ==
  \/ \E func \in Funcs : HookInit(func)
  \/ \E option_filter \in Filters, func \in Funcs :
       HookConfigChanged(option_filter, func)
  \/ \E func \in Funcs : HookBeforeLoad(func)
  \/ \E func \in Funcs : HookLoadStarted(func)
  \/ \E func \in Funcs : HookLoadFinished(func)

SpecHooks == Init /\ [][NextHooks]_vars

\* --------------------------- one config_changed object, many callbacks
\* d = hook.config_changed(option_filter): the object is made and kept.
ConfigChangedNew(option_filter) ==
  /\ Len(calls) < MaxCalls
  /\ decorators' = Append(decorators, config_changed_init(option_filter))
  /\ calls' = Append(calls, Call("config_changed.__init__", None,
                                 option_filter, None, <<>>))
  /\ ret' = [call |-> Call("config_changed.__init__", None,
                           option_filter, None, <<>>),
             result |-> Len(decorators) + 1, error |-> NoError]
  /\ UNCHANGED <<registry, threads>>

\* d(func) for an object d made earlier.
ConfigChangedApply(self, func) ==
  /\ Len(calls) < MaxCalls
  /\ LET out == config_changed_call(decorators[self], registry, func) IN
     Return(CallOn(self, "config_changed.__call__", func, NoFilter),
            out.registry, out.result, out.error)

NextDecorators ==
  \/ \E option_filter \in Filters : ConfigChangedNew(option_filter)
  \/ \E self \in DOMAIN decorators, func \in Funcs :
       ConfigChangedApply(self, func)
  \/ \E option_filter \in Filters, func \in Funcs :
       HookConfigChanged(option_filter, func)

SpecDecorators == Init /\ [][NextDecorators]_vars

\* -------------------------- init declarations made by several threads
\* importlib.import_module(func.__module__): the exception it raises,
\* NoError when the module is found.
import_error(func) ==
  IF ModuleOf(func) \notin Modules THEN ModuleNotFoundError ELSE NoError

\* getOrCreate, the creation alone: a new empty hook set for the module is
\* stored, whether or not another one was stored since the lookup.
add_module_info_create(reg, module) ==
  [registry |-> Append(reg, [identity |-> module, info |-> ModuleInfo]),
   info |-> Len(reg) + 1]

\* Thread t enters init.__call__(func); the import of the module of func
\* is still to come.
ThreadEnter(t, func) ==
  /\ threads[t].pc = "idle"
  /\ threads' = [threads EXCEPT ![t] =
       [pc |-> "import", func |-> func, info |-> 0,
        result |-> None, error |-> NoError]]
  /\ calls' = Append(calls, Call("init", func, NoFilter, None, <<>>))
  /\ UNCHANGED <<registry, ret, decorators>>

\* Thread t, inside _add_module_info, has searched for the module of func:
\* the import fails if the module is not found, otherwise the thread goes
\* on to the loader.  Other threads may run while the search is under way
\* and before the exception leaves the call.
ThreadImport(t) ==
  /\ threads[t].pc = "import"
  /\ IF import_error(threads[t].func) # NoError
     THEN threads' = [threads EXCEPT
            ![t].pc = "raise",
            ![t].error = import_error(threads[t].func)]
     ELSE threads' = [threads EXCEPT ![t].pc = "lookup"]
  /\ UNCHANGED <<registry, calls, ret, decorators>>

\* Thread t, inside the loader's get-or-create, looks the module up: it
\* takes the hook set it finds or goes on to create one.  The loader holds
\* no lock, so other threads may run between the lookup and the creation.
ThreadLookup(t) ==
  /\ threads[t].pc = "lookup"
  /\ IF get(registry, ModuleOf(threads[t].func)) # 0
     THEN threads' = [threads EXCEPT
            ![t].pc = "check",
            ![t].info = get(registry, ModuleOf(threads[t].func))]
     ELSE threads' = [threads EXCEPT ![t].pc = "create"]
  /\ UNCHANGED <<registry, calls, ret, decorators>>

\* Thread t, having found no hook set, creates one and takes it.
ThreadCreate(t) ==
  /\ threads[t].pc = "create"
  /\ LET out == add_module_info_create(registry, ModuleOf(threads[t].func)) IN
     /\ registry' = out.registry
     /\ threads' = [threads EXCEPT ![t].pc = "check", ![t].info = out.info]
  /\ UNCHANGED <<calls, ret, decorators>>

\* Thread t tests whether the init hook of its hook set is already set.
\* Other threads may run between the test and the raise or the assignment
\* that follows it.
ThreadCheck(t) ==
  /\ threads[t].pc = "check"
  /\ IF init_check(registry, threads[t].info) # NoError
     THEN threads' = [threads EXCEPT
            ![t].pc = "raise",
            ![t].error = init_check(registry, threads[t].info)]
     ELSE threads' = [threads EXCEPT ![t].pc = "store"]
  /\ UNCHANGED <<registry, calls, ret, decorators>>

\* The exception of thread t leaves init.__call__: the call is over and
\* nothing was stored.
ThreadRaise(t) ==
  /\ threads[t].pc = "raise"
  /\ threads' = [threads EXCEPT ![t].pc = "done"]
  /\ calls' = Append(calls, Call("init.return", threads[t].func,
                                 NoFilter, None, <<>>))
  /\ ret' = [call |-> Call("init", threads[t].func, NoFilter, None, <<>>),
             result |-> None, error |-> threads[t].error]
  /\ UNCHANGED <<registry, decorators>>

\* Thread t stores its callback as the init hook of its hook set.  The call
\* has not returned yet: other threads may see the stored hook before it
\* does.
ThreadStore(t) ==
  /\ threads[t].pc = "store"
  /\ registry' = init_store(registry, threads[t].info, threads[t].func)
  /\ threads' = [threads EXCEPT ![t].pc = "return"]
  /\ UNCHANGED <<calls, ret, decorators>>

\* Thread t returns its callback: the call is over.
ThreadReturn(t) ==
  /\ threads[t].pc = "return"
  /\ threads' = [threads EXCEPT ![t].pc = "done",
                                ![t].result = threads[t].func]
  /\ calls' = Append(calls, Call("init.return", threads[t].func,
                                 NoFilter, None, <<>>))
  /\ ret' = [call |-> Call("init", threads[t].func, NoFilter, None, <<>>),
             result |-> threads[t].func, error |-> NoError]
  /\ UNCHANGED <<registry, decorators>>

NextThreads ==
  \/ \E t \in Threads, func \in Funcs : ThreadEnter(t, func)
  \/ \E t \in Threads : ThreadImport(t)
  \/ \E t \in Threads : ThreadLookup(t)
  \/ \E t \in Threads : ThreadCreate(t)
  \/ \E t \in Threads : ThreadCheck(t)
  \/ \E t \in Threads : ThreadRaise(t)
  \/ \E t \in Threads : ThreadStore(t)
  \/ \E t \in Threads : ThreadReturn(t)

SpecThreads == Init /\ [][NextThreads]_vars

\* ------------------------------------ the matching predicate on its own
Alphabet == {"a", "b", "."}

\* Every string over Alphabet of length at most MaxStrLen.
GenStrings ==
  UNION {[1..n -> Alphabet] : n \in 0..MaxStrLen}

\* The option names and filters of the documentation.
NamedStrings ==
  {S_bind, S_bindings, S_bindings_commands, S_bindings_key_mappings,
   S_bindingsextra_foo, S_other_bindings, S_content_javascript,
   S_content_javascript_enabled, S_content_javascript_enabled_extra,
   S_content_javascript_enabledx, S_colors_foo}

MatchOptions == GenStrings \cup NamedStrings

MatchFilters == {NoFilter} \cup MatchOptions

\* The host has asked whether a filter matches a changed option; the call
\* is the last of the trace and has not returned yet.
InitMatch ==
  /\ registry = <<>>
  /\ \E option_filter \in MatchFilters, option \in MatchOptions :
       calls = <<Call("match", None, option_filter, None, option)>>
  /\ ret = [call |-> Call("none", None, NoFilter, None, <<>>),
            result |-> None, error |-> NoError]
  /\ decorators = <<>>
  /\ threads = [t \in Threads |-> IdleThread]

\* The pending query returns what the predicate computes.
Match ==
  /\ calls # <<>>
  /\ calls[Len(calls)].op = "match"
  /\ ret.call # calls[Len(calls)]
  /\ ret' = [call |-> calls[Len(calls)],
             result |-> FilterMatches(calls[Len(calls)].filter,
                                      calls[Len(calls)].option),
             error |-> NoError]
  /\ UNCHANGED <<registry, calls, decorators, threads>>

NextMatch ==
  Match

SpecMatch == InitMatch /\ [][NextMatch]_vars

\* =============================================================== claims
\* The positions of the registry that hold an entry for module m.
EntriesOf(reg, m) ==
  {i \in DOMAIN reg : reg[i].identity = m}

\* No entry of module m holds an init hook.
InitHookUnset(reg, m) ==
  \A i \in EntriesOf(reg, m) : reg[i].info.init_hook = None

\* The init hook of module m, None when the module is absent or has none.
InitHookOf(reg, m) ==
  IF EntriesOf(reg, m) = {} THEN None
  ELSE reg[CHOOSE i \in EntriesOf(reg, m) : TRUE].info.init_hook

\* This step made a call of the given kind.
Made(op) ==
  /\ calls' = Append(calls, ret'.call)
  /\ ret'.call.op = op

\* ------------------------------------------------------------------ C1
C1_Step ==
  (Made("init") /\ ModuleOf(ret'.call.func) \in Modules) =>
    LET func == ret'.call.func
        m == ModuleOf(ret'.call.func)
    IN /\ (ret'.error = NoError) <=> InitHookUnset(registry, m)
       /\ InitHookUnset(registry, m) =>
            /\ EntriesOf(registry', m) # {}
            /\ \A i \in EntriesOf(registry', m) :
                 registry'[i].info.init_hook = func
       /\ ~InitHookUnset(registry, m) =>
            /\ ret'.error = ValueError
            /\ registry' = registry

\* C1: an init registration for a resolvable module succeeds and stores the
\* callback iff the module's init hook was unset, whatever other hooks the
\* module has; otherwise it raises the duplicate-registration error
\* (ValueError in the source) and the registry is exactly as before.
C1_InitIffUnset ==
  [][C1_Step]_vars

\* A second init registration was just rejected in a module that also holds
\* other hooks; the first init hook is still the stored one.
C1_Witness ==
  /\ ret.call.op = "init"
  /\ ret.error = ValueError
  /\ \E i \in DOMAIN registry :
       /\ registry[i].identity = ModuleOf(ret.call.func)
       /\ registry[i].info.init_hook # None
       /\ registry[i].info.init_hook # ret.call.func
       /\ registry[i].info.config_changed_hooks # <<>>

\* ------------------------------------------------------------------ C2
RECURSIVE FirstInitFrom(_, _, _)
\* The callback of the first init registration for module m at or after
\* position i of the trace, None if there is none.
FirstInitFrom(cs, m, i) ==
  IF i > Len(cs) THEN None
  ELSE IF cs[i].op = "init" /\ ModuleOf(cs[i].func) = m THEN cs[i].func
  ELSE FirstInitFrom(cs, m, i + 1)

C2_Inv ==
  \A i \in DOMAIN registry :
    registry[i].info.init_hook # None =>
      registry[i].info.init_hook = FirstInitFrom(calls, registry[i].identity, 1)

C2_Step ==
  \A m \in Modules :
    InitHookOf(registry, m) # None =>
      InitHookOf(registry', m) = InitHookOf(registry, m)

\* C2: a stored init hook is the callback of the first init registration
\* made for its module, and once stored it never changes.
C2_InitSetOnce ==
  []C2_Inv /\ [][C2_Step]_vars

\* Two init registrations with different callbacks were made for one
\* module, another call followed, and the first callback is the one stored.
C2_Witness ==
  /\ Len(calls) >= 3
  /\ ret.call.op # "init"
  /\ \E i, j \in DOMAIN calls :
       /\ i < j
       /\ calls[i].op = "init"
       /\ calls[j].op = "init"
       /\ calls[i].func # calls[j].func
       /\ ModuleOf(calls[i].func) = ModuleOf(calls[j].func)
       /\ InitHookOf(registry, ModuleOf(calls[i].func)) = calls[i].func

\* ------------------------------------------------------------------ C3
C3_Inv ==
  \A i, j \in DOMAIN registry :
    /\ registry[i].info.init_hook # None =>
         ModuleOf(registry[i].info.init_hook) = registry[i].identity
    /\ (i # j /\ registry[i].info.init_hook # None) =>
         registry[i].info.init_hook # registry[j].info.init_hook

C3_Step ==
  (/\ Made("init")
   /\ ModuleOf(ret'.call.func) \in Modules
   /\ InitHookUnset(registry, ModuleOf(ret'.call.func))) =>
    /\ ret'.error = NoError
    /\ InitHookOf(registry', ModuleOf(ret'.call.func)) = ret'.call.func
    /\ \A n \in Modules \ {ModuleOf(ret'.call.func)} :
         InitHookOf(registry', n) = InitHookOf(registry, n)

\* C3: an init registration in a module whose own init hook is unset
\* succeeds whatever init hooks other modules hold, leaves theirs alone, and
\* every module's stored init hook is a callback of that module.
C3_InitPerModule ==
  []C3_Inv /\ [][C3_Step]_vars

\* An init registration just succeeded in one module while another module
\* already held its own init hook.
C3_Witness ==
  /\ ret.call.op = "init"
  /\ ret.error = NoError
  /\ \E i, j \in DOMAIN registry :
       /\ i # j
       /\ registry[i].info.init_hook = ret.call.func
       /\ registry[j].info.init_hook # None
       /\ registry[j].info.init_hook # ret.call.func

\* ------------------------------------------------------------------ C4
\* What a registration call of the trace puts into its hook list.
EntryOf(c) ==
  IF c.op = "config_changed" THEN <<c.filter, c.func>> ELSE c.func

RECURSIVE RegisteredFrom(_, _, _, _)
\* The entries registered for module m in category op, in call order, from
\* position i of the trace on.
RegisteredFrom(cs, m, op, i) ==
  IF i > Len(cs) THEN <<>>
  ELSE IF cs[i].op = op /\ ModuleOf(cs[i].func) = m
  THEN <<EntryOf(cs[i])>> \o RegisteredFrom(cs, m, op, i + 1)
  ELSE RegisteredFrom(cs, m, op, i + 1)

\* C4: every hook list of every module is the sequence of the callbacks
\* registered for that module in that category, in registration order, with
\* repetitions kept.
C4_ListsAreRegistrationOrder ==
  \A m \in Modules :
    /\ EntriesOf(registry, m) = {} =>
         \A op \in {"config_changed", "before_load",
                    "load_started", "load_finished"} :
           RegisteredFrom(calls, m, op, 1) = <<>>
    /\ \A i \in EntriesOf(registry, m) :
         /\ registry[i].info.config_changed_hooks =
              RegisteredFrom(calls, m, "config_changed", 1)
         /\ registry[i].info.before_load_hooks =
              RegisteredFrom(calls, m, "before_load", 1)
         /\ registry[i].info.load_started_hooks =
              RegisteredFrom(calls, m, "load_started", 1)
         /\ registry[i].info.load_finished_hooks =
              RegisteredFrom(calls, m, "load_finished", 1)

\* Three config-changed registrations in one module: the same entry twice,
\* then a different one.
C4_Witness ==
  \E i \in DOMAIN registry :
    /\ Len(registry[i].info.config_changed_hooks) = 3
    /\ registry[i].info.config_changed_hooks[1] =
         registry[i].info.config_changed_hooks[2]
    /\ registry[i].info.config_changed_hooks[3] #
         registry[i].info.config_changed_hooks[1]

\* ------------------------------------------------------------------ C5
\* The filter is a prefix of the option that ends right before a '.'.
SegmentAlignedPrefix(f, o) ==
  \E k \in 0..(Len(o) - 1) :
    /\ Len(f) = k
    /\ \A j \in 1..k : o[j] = f[j]
    /\ o[k + 1] = "."

\* The matching rule as the documentation words it.
RuleMatches(f, o) ==
  \/ f = NoFilter
  \/ f = o
  \/ SegmentAlignedPrefix(f, o)

\* The last answered query asked about this filter and this option.
Asked(f, o) ==
  /\ ret.call.op = "match"
  /\ ret.call.filter = f
  /\ ret.call.option = o

\* C5: the predicate answers true iff the filter is absent, equals the
\* option, or is a dot-segment-aligned prefix of it; 'bindings' matches
\* 'bindings.commands' and 'bindings.key_mappings', not 'bindingsextra.foo'
\* nor 'other.bindings', and 'bind' does not match 'bindings.commands'.
C5_MatchRule ==
  /\ ret.call.op = "match" =>
       (ret.result <=> RuleMatches(ret.call.filter, ret.call.option))
  /\ Asked(S_bindings, S_bindings_commands) => ret.result
  /\ Asked(S_bindings, S_bindings_key_mappings) => ret.result
  /\ Asked(S_bindings, S_bindingsextra_foo) => ~ret.result
  /\ Asked(S_bindings, S_other_bindings) => ~ret.result
  /\ Asked(S_bind, S_bindings_commands) => ~ret.result
  /\ \A o \in MatchOptions : Asked(NoFilter, o) => ret.result

\* 'bind' was asked against 'bindings.commands' and did not match.
C5_Witness ==
  /\ Asked(S_bind, S_bindings_commands)
  /\ ret.result = FALSE

\* ------------------------------------------------------------------ C6
\* p is a strictly shorter prefix of s.
ProperPrefix(p, s) ==
  /\ Len(p) < Len(s)
  /\ \A j \in 1..Len(p) : s[j] = p[j]

\* C6: a filter never matches an option that is a proper prefix of it, and
\* matches a longer option only as a segment-aligned prefix; the filter
\* 'content.javascript.enabled' matches itself, not 'content.javascript',
\* not 'content.javascript.enabledx', and 'content.javascript.enabled.extra'
\* only because it is segment-aligned.
C6_FullOptionFilter ==
  /\ (ret.call.op = "match" /\ ret.call.filter # NoFilter) =>
       /\ ProperPrefix(ret.call.option, ret.call.filter) => ~ret.result
       /\ Len(ret.call.option) > Len(ret.call.filter) =>
            (ret.result <=>
               SegmentAlignedPrefix(ret.call.filter, ret.call.option))
  /\ Asked(S_content_javascript_enabled, S_content_javascript_enabled)
       => ret.result
  /\ Asked(S_content_javascript_enabled, S_content_javascript)
       => ~ret.result
  /\ Asked(S_content_javascript_enabled, S_content_javascript_enabledx)
       => ~ret.result
  /\ Asked(S_content_javascript_enabled, S_content_javascript_enabled_extra)
       => ret.result

\* 'content.javascript.enabled' was asked against the shorter
\* 'content.javascript' and did not match.
C6_Witness ==
  /\ Asked(S_content_javascript_enabled, S_content_javascript)
  /\ ret.result = FALSE

\* ------------------------------------------------------------------ C7
RECURSIVE RegisteredMatchingFrom(_, _, _, _)
\* The config-changed entries registered for module m whose filter the rule
\* accepts for option o, in call order, from position i of the trace on.
RegisteredMatchingFrom(cs, m, o, i) ==
  IF i > Len(cs) THEN <<>>
  ELSE IF /\ cs[i].op = "config_changed"
          /\ ModuleOf(cs[i].func) = m
          /\ RuleMatches(cs[i].filter, o)
  THEN <<EntryOf(cs[i])>> \o RegisteredMatchingFrom(cs, m, o, i + 1)
  ELSE RegisteredMatchingFrom(cs, m, o, i + 1)

\* C7: dispatch returns exactly the config-changed entries of the module
\* whose filter matches the changed option, in registration order; after a
\* no-filter hook and a 'content.javascript' hook it returns both for
\* 'content.javascript.enabled' and only the first for 'colors.foo'.
C7_DispatchSelectsMatching ==
  ret.call.op = "dispatch" =>
    /\ ret.result =
         RegisteredMatchingFrom(calls, ret.call.identity, ret.call.option, 1)
    /\ \A f, g \in Funcs :
         (RegisteredFrom(calls, ret.call.identity, "config_changed", 1) =
            <<<<NoFilter, f>>, <<S_content_javascript, g>>>>) =>
           /\ ret.call.option = S_content_javascript_enabled =>
                ret.result = <<<<NoFilter, f>>, <<S_content_javascript, g>>>>
           /\ ret.call.option = S_colors_foo =>
                ret.result = <<<<NoFilter, f>>>>

\* A module registered a no-filter hook and then a 'content.javascript'
\* hook, and dispatch for 'colors.foo' selected one entry of the two.
C7_Witness ==
  /\ ret.call.op = "dispatch"
  /\ ret.call.option = S_colors_foo
  /\ Len(ret.result) = 1
  /\ \E i \in DOMAIN registry :
       /\ registry[i].identity = ret.call.identity
       /\ Len(registry[i].info.config_changed_hooks) = 2
       /\ registry[i].info.config_changed_hooks[1][1] = NoFilter
       /\ registry[i].info.config_changed_hooks[2][1] = S_content_javascript

\* ------------------------------------------------------------------ C8
C8_Inv ==
  \A i, j \in DOMAIN registry :
    registry[i].identity = registry[j].identity => i = j

C8_Step ==
  Made("getOrCreate") =>
    /\ ret'.result \in DOMAIN registry'
    /\ registry'[ret'.result].identity = ret'.call.identity
    /\ \A i \in EntriesOf(registry, ret'.call.identity) :
         /\ registry' = registry
         /\ ret'.result = i
    /\ EntriesOf(registry, ret'.call.identity) = {} =>
         registry' = Append(registry, [identity |-> ret'.call.identity,
                                       info |-> ModuleInfo])

\* C8: no module identity has two registry entries; getOrCreate returns the
\* reference to the module's one hook set, and for a module already present
\* it returns the existing reference and leaves the registry as it is.
C8_GetOrCreateIdempotent ==
  []C8_Inv /\ [][C8_Step]_vars

\* getOrCreate was just called for a module that already held hooks, and
\* the reference returned is to the hook set holding them.
C8_Witness ==
  /\ ret.call.op = "getOrCreate"
  /\ Len(calls) >= 2
  /\ registry[ret.result].identity = ret.call.identity
  /\ registry[ret.result].info # ModuleInfo

\* ------------------------------------------------------------------ C9
\* The module a call of the trace gets or creates, None if it does neither.
Touched(c) ==
  IF c.op = "getOrCreate" THEN c.identity
  ELSE IF c.op \in {"init", "config_changed", "before_load",
                    "load_started", "load_finished"}
          /\ ModuleOf(c.func) \in Modules
  THEN ModuleOf(c.func)
  ELSE None

RECURSIVE FirstSeen(_, _, _)
\* The modules of the trace in order of their first registration, given
\* those already seen before position i.
FirstSeen(cs, seen, i) ==
  IF i > Len(cs) THEN seen
  ELSE IF Touched(cs[i]) = None \/ \E k \in DOMAIN seen : seen[k] = Touched(cs[i])
  THEN FirstSeen(cs, seen, i + 1)
  ELSE FirstSeen(cs, Append(seen, Touched(cs[i])), i + 1)

\* C9: all() lists each registered module exactly once, in the order of
\* first registration, modules with an empty hook set included, each with
\* the reference to its own hook set.
C9_AllInRegistrationOrder ==
  ret.call.op = "all" =>
    /\ Len(ret.result) = Len(FirstSeen(calls, <<>>, 1))
    /\ \A k \in DOMAIN ret.result :
         /\ ret.result[k][1] = FirstSeen(calls, <<>>, 1)[k]
         /\ ret.result[k][2] \in DOMAIN registry
         /\ registry[ret.result[k][2]].identity = ret.result[k][1]

\* all() listed two modules, the first of them with a hook set still empty,
\* the second with hooks.
C9_Witness ==
  /\ ret.call.op = "all"
  /\ Len(ret.result) = 2
  /\ registry[ret.result[1][2]].info = ModuleInfo
  /\ registry[ret.result[2][2]].info # ModuleInfo

\* ----------------------------------------------------------------- C10
C10_Inv ==
  \A i \in DOMAIN registry : registry[i].identity \in Modules

C10_Step ==
  (/\ calls' = Append(calls, ret'.call)
   /\ ret'.call.op \in {"init", "config_changed", "before_load",
                        "load_started", "load_finished"}
   /\ ModuleOf(ret'.call.func) \notin Modules) =>
    /\ ret'.error = ModuleNotFoundError
    /\ registry' = registry

\* C10: a hook declaration whose callback's module cannot be resolved fails
\* with the resolution error (ModuleNotFoundError in the source) and leaves
\* the registry and every hook set as they were; no entry is ever filed
\* under an identity that is not a resolved module.
C10_UnresolvableFailsFast ==
  []C10_Inv /\ [][C10_Step]_vars

\* A declaration for an unresolvable callback was just rejected while the
\* registry already held hooks of another module.
C10_Witness ==
  /\ ret.call.op \in {"init", "config_changed", "before_load",
                      "load_started", "load_finished"}
  /\ ret.error = ModuleNotFoundError
  /\ \E i \in DOMAIN registry : registry[i].info # ModuleInfo

\* ----------------------------------------------------------------- C11
\* The five hook-declaration entry points.
HookOps ==
  {"init", "config_changed", "before_load", "load_started", "load_finished"}

\* C11: a hook-declaration call that raises nothing returns exactly the
\* callback it was given.
C11_ReturnsCallback ==
  (ret.call.op \in HookOps /\ ret.error = NoError) =>
    ret.result = ret.call.func

\* A before_load declaration just returned normally for its callback.
C11_Witness ==
  /\ ret.call.op = "before_load"
  /\ ret.error = NoError
  /\ ret.call.func \in Funcs
  /\ ret.result = ret.call.func

\* ----------------------------------------------------------------- C12
\* The hook set of module m, the empty one when the module is absent.
HookSetOf(reg, m) ==
  IF EntriesOf(reg, m) = {} THEN ModuleInfo
  ELSE reg[CHOOSE i \in EntriesOf(reg, m) : TRUE].info

\* The hook-set field a declaration of the given kind writes.
FieldOf(op) ==
  CASE op = "init" -> "init_hook"
    [] op = "config_changed" -> "config_changed_hooks"
    [] op = "before_load" -> "before_load_hooks"
    [] op = "load_started" -> "load_started_hooks"
    [] op = "load_finished" -> "load_finished_hooks"

C12_Step ==
  (calls' = Append(calls, ret'.call) /\ ret'.call.op \in HookOps) =>
    /\ ret'.error # NoError => registry' = registry
    /\ ret'.error = NoError =>
         \A n \in Modules :
           /\ n # ModuleOf(ret'.call.func) =>
                /\ EntriesOf(registry', n) = EntriesOf(registry, n)
                /\ HookSetOf(registry', n) = HookSetOf(registry, n)
           /\ n = ModuleOf(ret'.call.func) =>
                \A fld \in (DOMAIN ModuleInfo) \ {FieldOf(ret'.call.op)} :
                  HookSetOf(registry', n)[fld] = HookSetOf(registry, n)[fld]

\* C12: a hook declaration for module M changes only the field of its own
\* category in M's hook set; every other module's hook set and M's other
\* four fields stay as they were, and a declaration that raises changes no
\* hook set at all.
C12_RegistrationFrame ==
  [][C12_Step]_vars

\* A load_started declaration just succeeded in a module that holds hooks
\* of another category, while another module holds hooks too.
C12_Witness ==
  /\ ret.call.op = "load_started"
  /\ ret.error = NoError
  /\ \E i, j \in DOMAIN registry :
       /\ i # j
       /\ registry[i].identity = ModuleOf(ret.call.func)
       /\ Len(registry[i].info.load_started_hooks) = 1
       /\ [registry[i].info EXCEPT !.load_started_hooks = <<>>] # ModuleInfo
       /\ registry[j].info # ModuleInfo

\* ----------------------------------------------------------------- C13
\* Sequence a is an initial part of sequence b.
IsPrefix(a, b) ==
  /\ Len(a) <= Len(b)
  /\ \A k \in 1..Len(a) : b[k] = a[k]

C13_Step ==
  \A i \in DOMAIN registry :
    /\ i \in DOMAIN registry'
    /\ registry'[i].identity = registry[i].identity
    /\ registry[i].info.init_hook # None =>
         registry'[i].info.init_hook = registry[i].info.init_hook
    /\ IsPrefix(registry[i].info.config_changed_hooks,
                registry'[i].info.config_changed_hooks)
    /\ IsPrefix(registry[i].info.before_load_hooks,
                registry'[i].info.before_load_hooks)
    /\ IsPrefix(registry[i].info.load_started_hooks,
                registry'[i].info.load_started_hooks)
    /\ IsPrefix(registry[i].info.load_finished_hooks,
                registry'[i].info.load_finished_hooks)

\* C13: the registry only grows: a registered module keeps its place and
\* identity, a stored init hook stays, and every hook list before a step is
\* an initial part of the same list after it.
C13_AppendOnly ==
  [][C13_Step]_vars

\* A module that was created empty by getOrCreate now holds two
\* config-changed entries.
C13_Witness ==
  /\ Len(calls) >= 3
  /\ calls[1].op = "getOrCreate"
  /\ \E i \in DOMAIN registry :
       /\ registry[i].identity = calls[1].identity
       /\ Len(registry[i].info.config_changed_hooks) = 2

\* ----------------------------------------------------------------- C14
C14_Step ==
  (/\ calls' = Append(calls, ret'.call)
   /\ ret'.call.op \in {"get", "all", "dispatch"}) =>
    /\ registry' = registry
    /\ ret'.call.op = "get" =>
         /\ EntriesOf(registry, ret'.call.identity) = {} =>
              /\ ret'.result = 0
              /\ EntriesOf(registry', ret'.call.identity) = {}
         /\ EntriesOf(registry, ret'.call.identity) # {} =>
              ret'.result \in EntriesOf(registry, ret'.call.identity)

\* C14: get, all and the config-change dispatch query leave the registry
\* and every hook set as they were; get for an identity that was never
\* registered answers absent and creates no entry.
C14_QueriesReadOnly ==
  [][C14_Step]_vars

\* get just answered absent for a module that was never registered, while
\* another module is registered.
C14_Witness ==
  /\ ret.call.op = "get"
  /\ ret.result = 0
  /\ registry # <<>>
  /\ EntriesOf(registry, ret.call.identity) = {}

\* ----------------------------------------------------------------- C15
\* The registry that call c of a trace leaves when made on registry reg.
Apply(reg, c) ==
  CASE c.op = "init" -> init_call(reg, c.func).registry
    [] c.op = "config_changed" ->
         config_changed_call(config_changed_init(c.filter), reg, c.func).registry
    [] c.op = "before_load" -> before_load_call(reg, c.func).registry
    [] c.op = "load_started" -> load_started_call(reg, c.func).registry
    [] c.op = "load_finished" -> load_finished_call(reg, c.func).registry
    [] c.op = "getOrCreate" -> add_module_info(reg, c.identity).registry
    [] OTHER -> reg

RECURSIVE ReplayFrom(_, _, _, _)
\* The registry after the calls cs[order[i]], cs[order[i+1]], ... are made
\* one after the other, starting from reg.
ReplayFrom(cs, order, reg, i) ==
  IF i > Len(cs) THEN reg
  ELSE ReplayFrom(cs, order, Apply(reg, cs[order[i]]), i + 1)

\* The number of positions of sequence a that hold x.
Count(a, x) ==
  Cardinality({k \in DOMAIN a : a[k] = x})

\* Sequences a and b hold the same entries, each as many times.
SameEntries(a, b) ==
  /\ Len(a) = Len(b)
  /\ \A k \in DOMAIN a : Count(a, a[k]) = Count(b, a[k])

\* Registries r1 and r2 agree up to the order of the modules, the order
\* within the lists and the choice of the init callback.
SameUpToOrder(r1, r2) ==
  /\ {r1[i].identity : i \in DOMAIN r1} = {r2[i].identity : i \in DOMAIN r2}
  /\ Len(r1) = Len(r2)
  /\ \A m \in Modules :
       /\ (HookSetOf(r1, m).init_hook = None) <=>
            (HookSetOf(r2, m).init_hook = None)
       /\ SameEntries(HookSetOf(r1, m).config_changed_hooks,
                      HookSetOf(r2, m).config_changed_hooks)
       /\ SameEntries(HookSetOf(r1, m).before_load_hooks,
                      HookSetOf(r2, m).before_load_hooks)
       /\ SameEntries(HookSetOf(r1, m).load_started_hooks,
                      HookSetOf(r2, m).load_started_hooks)
       /\ SameEntries(HookSetOf(r1, m).load_finished_hooks,
                      HookSetOf(r2, m).load_finished_hooks)

\* C15 as stated: the calls made so far, made in any other order, leave
\* the very same registry.
C15_OrderIndependent ==
  \A order \in Permutations(1..Len(calls)) :
    ReplayFrom(calls, order, <<>>, 1) = registry

\* C15 amended: the calls made so far, made in any other order, register
\* the same modules, put the same entries as many times into every hook
\* list and leave an init hook in the same modules; only the order of the
\* modules, the order within the lists and which of several init callbacks
\* of a module is kept may differ.
C15_OrderIndependentUpToOrder ==
  /\ ReplayFrom(calls, [k \in 1..Len(calls) |-> k], <<>>, 1) = registry
  /\ \A order \in Permutations(1..Len(calls)) :
       SameUpToOrder(ReplayFrom(calls, order, <<>>, 1), registry)

\* Two modules were registered, one of them with two different entries in
\* one list, so that other orders of the same calls give another registry.
C15_Witness ==
  /\ Len(registry) = 2
  /\ \E i \in DOMAIN registry :
       /\ Len(registry[i].info.load_finished_hooks) = 2
       /\ registry[i].info.load_finished_hooks[1] #
            registry[i].info.load_finished_hooks[2]
  /\ \E order \in Permutations(1..Len(calls)) :
       ReplayFrom(calls, order, <<>>, 1) # registry

\* ----------------------------------------------------------------- C17
\* C17: when only the five decorators run, every module of the registry
\* holds at least one hook after every call.
C17_NoEmptyModule ==
  \A i \in DOMAIN registry : registry[i].info # ModuleInfo

\* A second init registration was just rejected; both registered modules
\* hold hooks.
C17_Witness ==
  /\ ret.call.op = "init"
  /\ ret.error = ValueError
  /\ Len(registry) = 2
  /\ \A i \in DOMAIN registry : registry[i].info # ModuleInfo

\* ----------------------------------------------------------------- C16
RECURSIVE NthNewFrom(_, _, _)
\* The position in the trace of the d-th creation of a config_changed
\* object at or after position i, 0 if there is none.
NthNewFrom(cs, d, i) ==
  IF i > Len(cs) THEN 0
  ELSE IF cs[i].op = "config_changed.__init__"
  THEN IF d = 1 THEN i ELSE NthNewFrom(cs, d - 1, i + 1)
  ELSE NthNewFrom(cs, d, i + 1)

\* The filter that was given when the config_changed object d was created.
FilterGiven(cs, d) ==
  cs[NthNewFrom(cs, d, 1)].filter

C16_Inv ==
  \A d \in DOMAIN decorators :
    decorators[d].filter = FilterGiven(calls, d)

C16_Step ==
  /\ IsPrefix(decorators, decorators')
  /\ \A i \in DOMAIN registry :
       /\ i \in DOMAIN registry'
       /\ IsPrefix(registry[i].info.config_changed_hooks,
                   registry'[i].info.config_changed_hooks)
  /\ (Made("config_changed.__call__") /\ ret'.error = NoError) =>
       HookSetOf(registry', ModuleOf(ret'.call.func)).config_changed_hooks =
         Append(HookSetOf(registry, ModuleOf(ret'.call.func)).config_changed_hooks,
                <<FilterGiven(calls, ret'.call.self), ret'.call.func>>)

\* C16: a config_changed object keeps the filter it was created with; each
\* callback it is applied to is recorded with that filter, and no later
\* call changes the filter of an entry already recorded.
C16_FilterFixed ==
  []C16_Inv /\ [][C16_Step]_vars

\* One config_changed('content.javascript') object was applied to two
\* different callbacks and both entries carry its filter.
C16_Witness ==
  \E i, j \in DOMAIN calls :
    /\ i < j
    /\ calls[i].op = "config_changed.__call__"
    /\ calls[j].op = "config_changed.__call__"
    /\ calls[i].self = calls[j].self
    /\ calls[i].func # calls[j].func
    /\ decorators[calls[i].self].filter = S_content_javascript
    /\ \E k \in DOMAIN registry :
         registry[k].info.config_changed_hooks =
           <<<<S_content_javascript, calls[i].func>>,
             <<S_content_javascript, calls[j].func>>>>

\* ----------------------------------------------------------------- C18
RECURSIVE EventsOfFrom(_, _, _)
\* The entry and return events of the trace that belong to module m, in the
\* order of the trace.
EventsOfFrom(cs, m, i) ==
  IF i > Len(cs) THEN <<>>
  ELSE IF ModuleOf(cs[i].func) = m
       THEN <<cs[i]>> \o EventsOfFrom(cs, m, i + 1)
       ELSE EventsOfFrom(cs, m, i + 1)

\* Every init call of the trace returned before the next call was made.
Serialized(cs) ==
  \A k \in DOMAIN cs :
    cs[k].op = "init" =>
      /\ k + 1 \in DOMAIN cs
      /\ cs[k + 1].op = "init.return"
      /\ cs[k + 1].func = cs[k].func

\* The init calls for module m were serialized: each returned before the
\* next call for m was made.  Calls for other modules may overlap them.
SerializedFor(cs, m) ==
  Serialized(EventsOfFrom(cs, m, 1))

\* Every thread has made its init declaration and is out of it again.
AllDone ==
  \A t \in Threads : threads[t].pc = "done"

\* The threads whose callback belongs to module m.
ThreadsOf(m) ==
  {t \in Threads : ModuleOf(threads[t].func) = m}

\* C18: the import, the lookup and the creation of the hook set, the test,
\* the assignment and the return of init.__call__ are separate steps.  For
\* every module whose init declarations did not overlap one another,
\* whatever the declarations for other modules did meanwhile: exactly one
\* of them succeeded, the others raised ValueError, the module has one hook
\* set, it is the one the undivided calls leave, and its init hook is the
\* callback of the first declaration.
C18_SerializedInitOnce ==
  \A m \in Modules :
    (/\ ThreadsOf(m) # {}
     /\ \A t \in ThreadsOf(m) : threads[t].pc = "done"
     /\ SerializedFor(calls, m)) =>
      /\ Cardinality(EntriesOf(registry, m)) = 1
      /\ HookSetOf(registry, m) =
           HookSetOf(ReplayFrom(calls, [k \in 1..Len(calls) |-> k], <<>>, 1), m)
      /\ Cardinality({t \in ThreadsOf(m) : threads[t].error = NoError}) = 1
      /\ \A t \in ThreadsOf(m) : threads[t].error \in {NoError, ValueError}
      /\ InitHookOf(registry, m) = FirstInitFrom(calls, m, 1)

\* Two threads declared different init callbacks of one module, one call
\* after the other, and the second was rejected; the declaration of a
\* third thread, not of that module, overlapped one of them.
C18_Witness ==
  /\ AllDone
  /\ ~Serialized(calls)
  /\ \E t, u \in Threads :
       /\ threads[t].func # threads[u].func
       /\ ModuleOf(threads[t].func) = ModuleOf(threads[u].func)
       /\ SerializedFor(calls, ModuleOf(threads[t].func))
       /\ threads[t].error = NoError
       /\ threads[u].error = ValueError

\* What overlapping declarations can do: no two init declarations of one
\* module both succeed.  Not an invariant of SpecThreads: when both threads
\* look the module up before either creates its hook set, each gets a hook
\* set of its own and both succeed; when both pass the test before either
\* assigns, both succeed and the later assignment replaces the earlier one.
C18_NeverTwoSucceed ==
  \A t, u \in Threads :
    (/\ t # u
     /\ ModuleOf(threads[t].func) = ModuleOf(threads[u].func)
     /\ threads[t].pc = "done"
     /\ threads[u].pc = "done") =>
      ~(threads[t].error = NoError /\ threads[u].error = NoError)

\* Two overlapping init declarations of one module both succeeded, each on
\* a hook set of its own: the module has two hook sets, one per callback.
C18_TwoHookSets ==
  /\ \E t, u \in Threads :
       /\ t # u
       /\ threads[t].pc = "done" /\ threads[u].pc = "done"
       /\ threads[t].error = NoError /\ threads[u].error = NoError
       /\ ModuleOf(threads[t].func) = ModuleOf(threads[u].func)
  /\ \E i, j \in DOMAIN registry :
       /\ i # j
       /\ registry[i].identity = registry[j].identity
       /\ registry[i].info.init_hook # None
       /\ registry[j].info.init_hook # None
       /\ registry[i].info.init_hook # registry[j].info.init_hook

\* A call that stored its hook has not returned yet, and meanwhile another
\* call for the same module saw the stored hook, raised and returned.
C18_RejectedBeforeReturn ==
  \E t, u \in Threads :
    /\ threads[t].pc = "return"
    /\ threads[u].pc = "done"
    /\ threads[u].error = ValueError
    /\ threads[t].info = threads[u].info

====
